---- MODULE Spec2Model ----
(***************************************************************************)
(* csv2sheet: update-sheet.py.  main() authenticates, lists the source     *)
(* directory and calls update_sheet() once per .csv file; update_sheet()   *)
(* resolves or creates the worksheet, reads and parses the CSV, reads the  *)
(* whole grid, shifts it right in memory, writes it back and merges the    *)
(* label row.                                                              *)
(*                                                                         *)
(* Text is a sequence of one-character strings, so that strip(), float()   *)
(* and the rendering of a number are computed, not assumed.  A cell value  *)
(* is a record [t, n, d, s]: a Python str, int, float n/d, or float NaN.   *)
(***************************************************************************)
EXTENDS Integers, Sequences, FiniteSets, TLC

\* ------------------------------------------------------------ constants
START_COL == 9
BLOCK_WIDTH == 9
\* The seven data columns of a block: range(1, 8), range(7), START_COL + 7.
DATA_COLS == 7
\* raw.shape[1] < 8
MIN_COLS == 8
\* raw.shape[0] < 2
MIN_ROWS == 2

\* --------------------------------------------------------------- bounds
\* Executions of main() one after the other (SpecSingle).
MaxRuns == 2
\* Rows of a CSV file, where the whole program runs (Spec).
MaxCsvRows == 3
\* Rows of a CSV file, where one file is run with no failure (SpecSingle).
MaxParseRows == 6

\* --------------------------------------------------------------- values
Str(s) == [s |-> s, t |-> "str", n |-> 0, d |-> 1]
IntV(n) == [s |-> <<>>, t |-> "int", n |-> n, d |-> 1]
FloatV(n, d) == [s |-> <<>>, t |-> "float", n |-> n, d |-> d]
NaN == [s |-> <<>>, t |-> "nan", n |-> 0, d |-> 1]
\* An empty cell of the spreadsheet, and the "" the program pads with.
Blank == Str(<<>>)

Digits == <<"0", "1", "2", "3", "4", "5", "6", "7", "8", "9">>
IsDigit(c) == \E i \in 1..10 : Digits[i] = c
DigitVal(c) == (CHOOSE i \in 1..10 : Digits[i] = c) - 1
IsSpace(c) == c = " "

RECURSIVE Pow10(_)
Pow10(k) == IF k = 0 THEN 1 ELSE 10 * Pow10(k - 1)

RECURSIVE DigitsToNat(_)
DigitsToNat(ds) ==
    IF ds = <<>> THEN 0
    ELSE 10 * DigitsToNat(SubSeq(ds, 1, Len(ds) - 1)) + DigitVal(ds[Len(ds)])

RECURSIVE NatToDigits(_)
NatToDigits(n) ==
    IF n < 10 THEN <<Digits[n + 1]>>
    ELSE Append(NatToDigits(n \div 10), Digits[(n % 10) + 1])

\* str.strip(): leading and trailing whitespace removed.
RECURSIVE LStrip(_)
LStrip(s) == IF s # <<>> /\ IsSpace(s[1]) THEN LStrip(Tail(s)) ELSE s
RECURSIVE RStrip(_)
RStrip(s) ==
    IF s # <<>> /\ IsSpace(s[Len(s)]) THEN RStrip(SubSeq(s, 1, Len(s) - 1)) ELSE s
Strip(s) == LStrip(RStrip(s))

\* float(text): surrounding whitespace is ignored; digits with at most one
\* "." and at least one digit parse (sign, exponent, "inf" and "_" are not in
\* the alphabet of the model).  The value is num / den, den a power of ten.
ParseFloat(s) ==
    LET t == Strip(s)
        dots == {i \in 1..Len(t) : t[i] = "."}
        ok == /\ t # <<>>
              /\ \A i \in 1..Len(t) : IsDigit(t[i]) \/ t[i] = "."
              /\ Cardinality(dots) <= 1
              /\ \E i \in 1..Len(t) : IsDigit(t[i])
        k == IF dots = {} THEN 0 ELSE Len(t) - (CHOOSE i \in dots : TRUE)
    IN  IF ok THEN [ok |-> TRUE, num |-> DigitsToNat(SelectSeq(t, IsDigit)), den |-> Pow10(k)]
        ELSE [ok |-> FALSE, num |-> 0, den |-> 1]

\* A float as Python holds it: 2.50 and 2.5 are one value.
RECURSIVE MkFloat(_, _)
MkFloat(num, den) ==
    IF den > 1 /\ num % 10 = 0 THEN MkFloat(num \div 10, den \div 10)
    ELSE FloatV(num, den)

\* str(val): a str is itself, NaN is "nan", a number is its digits.
PyStr(v) ==
    CASE v.t = "str" -> v.s
      [] v.t = "nan" -> <<"n", "a", "n">>
      [] v.t = "int" -> NatToDigits(v.n)
      [] OTHER ->
            LET frac == NatToDigits(v.n % v.d)
                width == Len(NatToDigits(v.d)) - 1
                zeros == [i \in 1..(width - Len(frac)) |-> "0"]
            IN  NatToDigits(v.n \div v.d) \o <<".">> \o zeros \o frac

\* convert_cell(val).  float(NaN) succeeds and NaN.is_integer() is False, so
\* a missing cell is returned as the float NaN.
convert_cell(val) ==
    IF val.t = "nan" THEN NaN
    ELSE IF val.t = "str"
    THEN LET f == ParseFloat(val.s)
         IN  IF f.ok
             THEN IF f.num % f.den = 0 THEN IntV(f.num \div f.den)
                  ELSE MkFloat(f.num, f.den)
             ELSE Str(Strip(val.s))
    ELSE IF val.t = "float" /\ val.n % val.d # 0 THEN val
    ELSE IntV(val.n \div val.d)

\* ------------------------------------------------------------ CSV files
\* pd.read_csv(csv_path, header=None): a rectangular frame of nr rows and nc
\* columns.  Row 0 is header text, so every column is of dtype object: a cell
\* is a str, or NaN where the field is empty.
Samples == << <<"1">>, <<"4", "2", ".", "0">>, <<"2", ".", "5">>, <<"x">>, <<" ", "y", " ">> >>

\* The frame of a file: blanks are the rows (below row 0) whose first field is
\* empty; a "sparse" file also leaves the last data fields of each row empty.
Frame(nr, nc, blanks, v) ==
    [i \in 1..nr |-> [j \in 1..nc |->
        IF i = 1
        THEN IF j = 1 THEN NaN ELSE Str(<<" ", "H", Digits[j]>>)
        ELSE IF j = 1
        THEN IF i \in blanks THEN NaN ELSE Str(<<"D", Digits[i]>>)
        ELSE IF v = "sparse" /\ j > 4 THEN NaN
        ELSE Str(Samples[((i + j) % Len(Samples)) + 1])]]

\* Files of up to maxRows rows and of one column too few, just enough, or
\* one more than the program reads, with at most two rows whose first field
\* is empty.
Frames(maxRows) ==
    {Frame(nr, nc, blanks, v) :
        nr \in 1..maxRows,
        nc \in (MIN_COLS - 1)..(MIN_COLS + 1),
        blanks \in {b \in SUBSET (2..maxRows) : Cardinality(b) <= 2},
        v \in {"plain", "sparse"}}

NRows(raw) == Len(raw)
NCols(raw) == IF raw = <<>> THEN 0 ELSE Len(raw[1])

\* raw.shape[1] < 8 or raw.shape[0] < 2
Malformed(raw) == NCols(raw) < MIN_COLS \/ NRows(raw) < MIN_ROWS

\* pd.isna(raw.iloc[i, 0])
isna(v) == v.t = "nan"

\* date_label = str(raw.iloc[1, 0]).strip()
ParseLabel(raw) == Str(Strip(PyStr(raw[2][1])))

\* header_row = [str(raw.iloc[0, i]).strip() for i in range(1, 8)]
ParseHeader(raw) == [j \in 1..DATA_COLS |-> Str(Strip(PyStr(raw[1][j + 1])))]

\* row = [convert_cell(raw.iloc[i, j]) for j in range(1, 8)]
ParseRow(raw, i) == [j \in 1..DATA_COLS |-> convert_cell(raw[i][j + 1])]

\* A loop that passes over a row with a blank first cell and goes on.
RECURSIVE RowsFrom_continue(_, _)
RowsFrom_continue(raw, i) ==
    IF i > NRows(raw) THEN <<>>
    ELSE IF isna(raw[i][1]) THEN RowsFrom_continue(raw, i + 1)
    ELSE <<ParseRow(raw, i)>> \o RowsFrom_continue(raw, i + 1)

\* for i in range(1, raw.shape[0]): break at the first row whose column 0 is
\* missing.  i is the 1-based row, so the loop starts at 2.
RECURSIVE RowsFrom(_, _)
RowsFrom(raw, i) ==
    IF i > NRows(raw) THEN <<>>
    ELSE IF isna(raw[i][1]) THEN <<>>
    ELSE <<ParseRow(raw, i)>> \o RowsFrom(raw, i + 1)

ParseRows(raw) == RowsFrom(raw, 2)

\* ------------------------------------------------- the grid in memory
Blanks(k) == [i \in 1..k |-> Blank]

\* A grid padded to one row less than the data needs.
PadRows_short(ed, h) ==
    IF Len(ed) < h + 1 THEN ed \o [i \in 1..(h + 1 - Len(ed)) |-> <<>>] ELSE ed

\* while len(existing_data) < max_height + 2: existing_data.append([])
PadRows(ed, h) ==
    IF Len(ed) < h + 2 THEN ed \o [i \in 1..(h + 2 - Len(ed)) |-> <<>>] ELSE ed

\* while len(existing_data[i]) < START_COL: existing_data[i].append("")
PadCols(ed) ==
    [i \in 1..Len(ed) |->
        IF Len(ed[i]) < START_COL THEN ed[i] \o Blanks(START_COL - Len(ed[i])) ELSE ed[i]]

\* row[START_COL:] = [""] * BLOCK_WIDTH + row[START_COL:]
ShiftRow(row) ==
    LET k == IF Len(row) < START_COL THEN Len(row) ELSE START_COL
    IN  SubSeq(row, 1, k) \o Blanks(BLOCK_WIDTH) \o SubSeq(row, k + 1, Len(row))

ShiftRows(ed) == [i \in 1..Len(ed) |-> ShiftRow(ed[i])]

\* if len(existing_data[0]) < START_COL + 7: the branch that pads row 0.
Row0Short(ed) == ed # <<>> /\ Len(ed[1]) < START_COL + DATA_COLS

PadRow0(ed) ==
    IF Row0Short(ed)
    THEN [ed EXCEPT ![1] = @ \o Blanks(START_COL + DATA_COLS - Len(@) + 2)]
    ELSE ed

\* The cells the three assignment loops index, 0-based as in the code:
\* existing_data[0][START_COL], existing_data[1][START_COL + j],
\* existing_data[r + 2][START_COL + c].
Targets(h) ==
    {<<0, START_COL>>}
        \cup {<<1, START_COL + j>> : j \in 0..(DATA_COLS - 1)}
        \cup {<<r + 2, START_COL + c>> : r \in 0..(h - 1), c \in 0..(DATA_COLS - 1)}

\* list[i] with i >= 0 raises IndexError when i >= len(list).
InBounds(ed, r, c) == r < Len(ed) /\ c < Len(ed[r + 1])

\* Lines 84-91: the label, the header and the data assigned into the grid.
Assign(ed, label, header, rows) ==
    [i \in 1..Len(ed) |-> [j \in 1..Len(ed[i]) |->
        IF i = 1 /\ j = START_COL + 1 THEN label
        ELSE IF i = 2 /\ j > START_COL /\ j <= START_COL + DATA_COLS
        THEN header[j - START_COL]
        ELSE IF i > 2 /\ i <= Len(rows) + 2 /\ j > START_COL /\ j <= START_COL + DATA_COLS
        THEN rows[i - 2][j - START_COL]
        ELSE ed[i][j]]]

\* Lines 62-91 on the grid get_all_values() returned: [err, padded0, grid].
\* err is an IndexError (len(existing_data[0]) on a grid with no rows, or an
\* assignment out of range); the grid is then never written.
Compose(existing, label, header, rows) ==
    LET h == Len(rows)
        shifted == ShiftRows(PadCols(PadRows(existing, h)))
        padded == PadRow0(shifted)
        ok == shifted # <<>> /\ \A p \in Targets(h) : InBounds(padded, p[1], p[2])
    IN  [err |-> ~ok,
         padded0 |-> Row0Short(shifted),
         grid |-> IF ok THEN Assign(padded, label, header, rows) ELSE padded]


\* ------------------------------------------------------ the spreadsheet
\* A worksheet is [title, grid, merges].  Its grid is the non-empty part of
\* the sheet: rows of cells without trailing empty cells or rows; a cell holds
\* text (a str) or a number (an int or a float).
Max(a, b) == IF a > b THEN a ELSE b

Cell(grid, r, c) ==
    IF r < Len(grid) /\ c < Len(grid[r + 1]) THEN grid[r + 1][c + 1] ELSE Blank

RECURSIVE TrimRow(_)
TrimRow(row) ==
    IF row # <<>> /\ row[Len(row)] = Blank THEN TrimRow(SubSeq(row, 1, Len(row) - 1))
    ELSE row

RECURSIVE TrimRows(_)
TrimRows(g) ==
    IF g # <<>> /\ g[Len(g)] = <<>> THEN TrimRows(SubSeq(g, 1, Len(g) - 1)) ELSE g

TrimGrid(g) == TrimRows([i \in 1..Len(g) |-> TrimRow(g[i])])

Width(g) == IF g = <<>> THEN 0 ELSE CHOOSE w \in {Len(g[i]) : i \in 1..Len(g)} :
                                        \A i \in 1..Len(g) : Len(g[i]) <= w

\* sheet.get_all_values(): every cell as the string the sheet displays, the
\* rows filled to one length; a number comes back as its digits.
get_all_values(grid) ==
    [i \in 1..Len(grid) |-> [j \in 1..Width(grid) |->
        Str(PyStr(Cell(grid, i - 1, j - 1)))]]

\* The request body is JSON: a NaN in it is refused, by the client
\* (allow_nan=False) or by the service (invalid JSON).
Serializable(data) ==
    \A i \in 1..Len(data) : \A j \in 1..Len(data[i]) : data[i][j].t # "nan"

\* sheet.update("A1", data), value input option RAW: each value of data is
\* stored as it is in the cell at its place, a str as text and a number as a
\* number; the cells data does not cover keep their content.
update(grid, data) ==
    TrimGrid([i \in 1..Max(Len(grid), Len(data)) |->
        [j \in 1..Max(IF i <= Len(grid) THEN Len(grid[i]) ELSE 0,
                      IF i <= Len(data) THEN Len(data[i]) ELSE 0) |->
            IF i <= Len(data) /\ j <= Len(data[i]) THEN data[i][j]
            ELSE Cell(grid, i - 1, j - 1)]])

\* A merge that reaches over the gap into the block before.
MergeRange_wide ==
    [startRowIndex |-> 0, endRowIndex |-> 1,
     startColumnIndex |-> START_COL, endColumnIndex |-> START_COL + BLOCK_WIDTH + 1]

\* The mergeCells request: row 0, columns [START_COL, START_COL + 7).
MergeRange ==
    [startRowIndex |-> 0, endRowIndex |-> 1,
     startColumnIndex |-> START_COL, endColumnIndex |-> START_COL + DATA_COLS]

InRange(m, r, c) ==
    /\ m.startRowIndex <= r /\ r < m.endRowIndex
    /\ m.startColumnIndex <= c /\ c < m.endColumnIndex

\* MERGE_ALL: the range is one cell showing its top-left value; the other
\* cells of the range are emptied.
mergeCells(ws, m) ==
    [ws EXCEPT
        !.merges = @ \cup {m},
        !.grid = TrimGrid([i \in 1..Len(@) |-> [j \in 1..Len(@[i]) |->
                    IF /\ InRange(m, i - 1, j - 1)
                       /\ ~(i - 1 = m.startRowIndex /\ j - 1 = m.startColumnIndex)
                    THEN Blank ELSE @[i][j]]])]

\* A lookup that never finds the worksheet.
worksheet_none(wss, name) == 0

\* spreadsheet.worksheet(name): the first worksheet of that title (0: none,
\* WorksheetNotFound).
worksheet(wss, name) ==
    IF \E i \in 1..Len(wss) : wss[i].title = name
    THEN CHOOSE i \in 1..Len(wss) :
            wss[i].title = name /\ \A k \in 1..(i - 1) : wss[k].title # name
    ELSE 0

\* spreadsheet.add_worksheet(title=name, rows="100", cols="50")
add_worksheet(wss, name) == Append(wss, [grid |-> <<>>, merges |-> {}, title |-> name])

\* ------------------------------------------------------- the directory
\* os.listdir(SOURCE_DIR): file names, each a stem and an extension.
Files ==
    {[stem |-> "a", ext |-> ".csv"], [stem |-> "b", ext |-> ".csv"],
     [stem |-> "a", ext |-> ".txt"]}

\* filename.endswith(".csv")
IsCsv(f) == f.ext = ".csv"

\* os.path.splitext(filename)[0]
SheetName(f) == f.stem

SheetNames == {SheetName(f) : f \in Files}


\* ---------------------------------------------------------------- state
VARIABLES
    pc,             \* where main() / update_sheet() stands
    run,            \* executions of main() started
    exit,           \* how the last execution ended: "none", "returned", "raised"
    authed,         \* the setup of this execution succeeded
    isdir,          \* os.path.isdir(SOURCE_DIR) in this execution
    listing,        \* os.listdir(SOURCE_DIR) in this execution
    todo,           \* files of the listing the loop has not reached yet
    called,         \* sheet names handed to update_sheet in this execution, in order
    results,        \* what each call that has returned printed last, in order
    sheet_name,     \* update_sheet's argument
    sheet,          \* the worksheet resolved (its place in worksheets; 0: none)
    raw,            \* the frame read from the CSV (not read after line 60)
    date_label,
    header_row,
    data_rows,
    existing_data,  \* the grid in memory
    padded0,        \* the branch of line 82 was taken in this call
    log,            \* what the call printed last: "none", "skip", "ok", "error"
    err,            \* the exception it caught: "", "remote", "read", "json", "IndexError"
    worksheets,     \* the spreadsheet: a sequence of worksheets
    ops,            \* the remote calls of the current update_sheet, in order: <<op, ok>>
    hist            \* per sheet name: [tracked, blocks], the blocks handed to the writer

locals == <<sheet, raw, date_label, header_row, data_rows, existing_data>>
vars == <<pc, run, exit, authed, isdir, listing, todo, called, results, sheet_name, locals, padded0, log,
          err, worksheets, ops, hist>>

\* ----------------------------------------------------------------- Init
TextRow == <<Str(<<"x">>), Blank, Str(<<"y">>)>>

\* What one complete call of update_sheet leaves of a worksheet.
Written(ws, frame) ==
    LET c == Compose(get_all_values(ws.grid), ParseLabel(frame), ParseHeader(frame),
                     ParseRows(frame))
    IN  mergeCells([ws EXCEPT !.grid = update(@, c.grid)], MergeRange)

NewSheet(name, grid) == [grid |-> grid, merges |-> {}, title |-> name]

\* Worksheets the spreadsheet may hold before main() runs: an empty one, one
\* with rows narrower than START_COL holding text and a number, one that an
\* earlier execution wrote a block of two data rows to, and one it wrote to
\* over the narrow rows.
NarrowGrid == <<TextRow, <<IntV(7)>>, <<>>, TextRow>>

PriorSheets ==
    {NewSheet("a", <<>>),
     NewSheet("a", NarrowGrid),
     Written(NewSheet("a", <<>>), Frame(3, MIN_COLS, {}, "plain")),
     Written(NewSheet("a", NarrowGrid), Frame(2, MIN_COLS, {}, "plain"))}

PriorSpreadsheets == {<<>>} \cup {<<ws>> : ws \in PriorSheets}

EmptySpreadsheets == {<<>>, <<[grid |-> <<>>, merges |-> {}, title |-> "a"]>>}

NoLocals ==
    /\ sheet = 0 /\ raw = <<>> /\ date_label = Blank /\ header_row = <<>>
    /\ data_rows = <<>> /\ existing_data = <<>>

\* The state before main() first runs.  With track, hist records the blocks
\* handed to the writer for each sheet, until a failure of the service leaves a
\* sheet written but not merged.
Start(spreadsheets, track) ==
    /\ pc = "idle" /\ run = 0 /\ exit = "none" /\ authed = FALSE /\ isdir = FALSE
    /\ listing = {} /\ todo = {} /\ called = <<>> /\ results = <<>>
    /\ sheet_name = "" /\ NoLocals /\ padded0 = FALSE
    /\ log = "none" /\ err = ""
    /\ worksheets \in spreadsheets
    /\ ops = <<>>
    /\ hist = [n \in SheetNames |-> [tracked |-> track, blocks |-> <<>>]]

Init == Start(PriorSpreadsheets, FALSE)

\* -------------------------------------------------------------- actions
Block == [label |-> date_label, header |-> header_row, rows |-> data_rows]

Op(op, ok) == Append(ops, <<op, ok>>)

\* update_sheet returns: its locals are gone with the call.
ResetLocals ==
    /\ sheet' = 0 /\ raw' = <<>> /\ date_label' = Blank /\ header_row' = <<>>
    /\ data_rows' = <<>> /\ existing_data' = <<>>

\* The raise of line 121 in force: the exception leaves update_sheet.
ExceptTarget_reraise == "idle"

\* except Exception as e: print the error; the raise is commented out, so the
\* call returns and the loop of main() goes on.
ExceptTarget == "loop"

\* The except clause of update_sheet.
Caught(kind) ==
    /\ log' = "error" /\ err' = kind
    /\ results' = Append(results, "error")
    /\ ResetLocals
    /\ pc' = IF ExceptTarget = "loop" THEN "loop" ELSE "idle"
    /\ exit' = IF ExceptTarget = "loop" THEN exit ELSE "raised"

\* main(), lines 127-139: credentials, client, spreadsheet, service.  A
\* failure is printed and raised again.
Setup(ok, runs) ==
    /\ pc = "idle" /\ run < runs
    /\ run' = run + 1
    /\ authed' = ok
    /\ pc' = IF ok THEN "isdir" ELSE "idle"
    /\ exit' = IF ok THEN "none" ELSE "raised"
    /\ isdir' = FALSE /\ listing' = {} /\ todo' = {} /\ called' = <<>> /\ results' = <<>>
    /\ ops' = <<>> /\ log' = "none" /\ err' = "" /\ padded0' = FALSE /\ sheet_name' = ""
    /\ UNCHANGED <<locals, worksheets, hist>>

\* Lines 142-147: a missing source directory ends the execution; otherwise
\* os.listdir gives the files to loop over.
CheckDir(exists, files) ==
    /\ pc = "isdir"
    /\ isdir' = exists
    /\ listing' = IF exists THEN files ELSE {}
    /\ todo' = listing'
    /\ pc' = IF exists THEN "loop" ELSE "idle"
    /\ exit' = IF exists THEN exit ELSE "returned"
    /\ UNCHANGED <<run, authed, called, results, sheet_name, locals, padded0, log, err,
                   worksheets, ops, hist>>

\* Lines 147-153: the next file of the listing; a .csv file is handed to
\* update_sheet under the name of its stem.
NextFile(f) ==
    /\ pc = "loop" /\ f \in todo
    /\ todo' = todo \ {f}
    /\ IF IsCsv(f)
       THEN /\ sheet_name' = SheetName(f)
            /\ called' = Append(called, SheetName(f))
            /\ pc' = "resolve"
            /\ ops' = <<>>
            /\ log' = "none" /\ err' = "" /\ padded0' = FALSE
       ELSE UNCHANGED <<sheet_name, called, pc, ops, log, err, padded0>>
    /\ UNCHANGED <<run, exit, authed, isdir, listing, results, locals, worksheets, hist>>

\* The loop is over: main() returns.
Finish ==
    /\ pc = "loop" /\ todo = {}
    /\ pc' = "idle" /\ exit' = "returned"
    /\ UNCHANGED <<run, authed, isdir, listing, todo, called, results, sheet_name, locals,
                   padded0, log, err, worksheets, ops, hist>>

\* Lines 39-42: spreadsheet.worksheet(sheet_name).  WorksheetNotFound leads to
\* add_worksheet; any other failure is caught by the outer except.
Lookup(ok) ==
    /\ pc = "resolve"
    /\ ops' = Op("lookup", ok)
    /\ IF ok
       THEN /\ sheet' = worksheet(worksheets, sheet_name)
            /\ pc' = IF sheet' = 0 THEN "create" ELSE "read"
            /\ UNCHANGED <<raw, date_label, header_row, data_rows, existing_data,
                           log, err, exit, results>>
       ELSE Caught("remote")
    /\ UNCHANGED <<run, authed, isdir, listing, todo, called, sheet_name, padded0,
                   worksheets, hist>>

\* Line 43: add_worksheet.
AddWorksheet(ok) ==
    /\ pc = "create"
    /\ ops' = Op("create", ok)
    /\ IF ok
       THEN /\ worksheets' = add_worksheet(worksheets, sheet_name)
            /\ sheet' = Len(worksheets')
            /\ pc' = "read"
            /\ UNCHANGED <<raw, date_label, header_row, data_rows, existing_data,
                           log, err, exit, results>>
       ELSE Caught("remote") /\ UNCHANGED worksheets
    /\ UNCHANGED <<run, authed, isdir, listing, todo, called, sheet_name, padded0, hist>>

\* Lines 46-62: the CSV is read; a file pandas cannot read (empty, ragged,
\* unreadable) raises into the outer except; a frame that is too small is
\* skipped with a warning, any other is parsed into the label, the header and
\* the data rows.
ReadCsv(ok, frame) ==
    /\ pc = "read"
    /\ IF ~ok
       THEN Caught("read")
       ELSE IF Malformed(frame)
       THEN /\ log' = "skip" /\ pc' = "loop"
            /\ results' = Append(results, "skip")
            /\ ResetLocals
            /\ UNCHANGED <<err, exit>>
       ELSE /\ raw' = frame
            /\ date_label' = ParseLabel(frame)
            /\ header_row' = ParseHeader(frame)
            /\ data_rows' = ParseRows(frame)
            /\ pc' = "get"
            /\ UNCHANGED <<sheet, existing_data, log, results, err, exit>>
    /\ UNCHANGED <<run, authed, isdir, listing, todo, called, sheet_name, padded0,
                   worksheets, ops, hist>>

\* Lines 65-91: the whole grid is read, padded, shifted right and the block
\* assigned into it, all in memory.
GetAllValues(ok) ==
    /\ pc = "get"
    /\ ops' = Op("get", ok)
    /\ IF ok
       THEN LET c == Compose(get_all_values(worksheets[sheet].grid),
                             date_label, header_row, data_rows)
            IN  /\ padded0' = c.padded0
                /\ IF c.err
                   THEN Caught("IndexError")
                   ELSE /\ existing_data' = c.grid
                        /\ raw' = <<>>
                        /\ pc' = "update"
                        /\ UNCHANGED <<sheet, date_label, header_row, data_rows,
                                       log, err, exit, results>>
       ELSE Caught("remote") /\ UNCHANGED padded0
    /\ UNCHANGED <<run, authed, isdir, listing, todo, called, sheet_name, worksheets, hist>>

\* A write whose failure is passed over: the merge is issued all the same.
Update_unchecked(ok) ==
    /\ pc = "update"
    /\ ops' = Op("update", ok /\ Serializable(existing_data))
    /\ worksheets' = IF ok /\ Serializable(existing_data)
                     THEN [worksheets EXCEPT ![sheet].grid = update(@, existing_data)]
                     ELSE worksheets
    /\ pc' = "merge"
    /\ UNCHANGED <<locals, log, err, exit, results, hist>>
    /\ UNCHANGED <<run, authed, isdir, listing, todo, called, sheet_name, padded0>>

\* Line 94: one batch write of the whole grid.  A grid holding NaN cannot be
\* sent: the block was handed to the writer and the call fails.
Update(ok) ==
    /\ pc = "update"
    /\ IF ok /\ Serializable(existing_data)
       THEN /\ ops' = Op("update", TRUE)
            /\ worksheets' = [worksheets EXCEPT ![sheet].grid = update(@, existing_data)]
            /\ pc' = "merge"
            /\ UNCHANGED <<locals, log, err, exit, results, hist>>
       ELSE /\ ops' = Op("update", FALSE)
            /\ Caught(IF ok THEN "json" ELSE "remote")
            /\ hist' = IF ok /\ hist[sheet_name].tracked
                       THEN [hist EXCEPT ![sheet_name].blocks = Append(@, Block)]
                       ELSE hist
            /\ UNCHANGED worksheets
    /\ UNCHANGED <<run, authed, isdir, listing, todo, called, sheet_name, padded0>>

\* Lines 97-116: the merge request for the label row, then the success line.
Merge(ok) ==
    /\ pc = "merge"
    /\ ops' = Op("merge", ok)
    /\ IF ok
       THEN /\ worksheets' = [worksheets EXCEPT ![sheet] = mergeCells(@, MergeRange)]
            /\ log' = "ok" /\ pc' = "loop"
            /\ results' = Append(results, "ok")
            /\ ResetLocals
            /\ hist' = IF hist[sheet_name].tracked
                       THEN [hist EXCEPT ![sheet_name].blocks = Append(@, Block)]
                       ELSE hist
            /\ UNCHANGED <<err, exit>>
       ELSE /\ Caught("remote")
            /\ hist' = [hist EXCEPT ![sheet_name] = [tracked |-> FALSE, blocks |-> <<>>]]
            /\ UNCHANGED worksheets
    /\ UNCHANGED <<run, authed, isdir, listing, todo, called, sheet_name, padded0>>

Next ==
    \/ \E ok \in BOOLEAN : Setup(ok, 1)
    \/ \E exists \in BOOLEAN, files \in SUBSET Files : CheckDir(exists, files)
    \/ \E f \in Files : NextFile(f)
    \/ Finish
    \/ \E ok \in BOOLEAN : Lookup(ok)
    \/ \E ok \in BOOLEAN : AddWorksheet(ok)
    \/ \E ok \in BOOLEAN, frame \in Frames(MaxCsvRows) : ReadCsv(ok, frame)
    \/ \E ok \in BOOLEAN : GetAllValues(ok)
    \/ \E ok \in BOOLEAN : Update(ok)
    \/ \E ok \in BOOLEAN : Merge(ok)

\* One execution of main(), over every listing of the directory, every file
\* content and every failure of the service, from any prior spreadsheet.
Spec == Init /\ [][Next]_vars

\* One file, a.csv, run again and again on a sheet that begins empty, the
\* service never failing and the blocks handed to the writer recorded.
FileA == [stem |-> "a", ext |-> ".csv"]

InitSingle == Start(EmptySpreadsheets, TRUE)

NextSingle ==
    \/ Setup(TRUE, MaxRuns)
    \/ CheckDir(TRUE, {FileA})
    \/ NextFile(FileA)
    \/ Finish
    \/ Lookup(TRUE)
    \/ AddWorksheet(TRUE)
    \/ \E frame \in Frames(MaxParseRows) : ReadCsv(TRUE, frame)
    \/ GetAllValues(TRUE)
    \/ Update(TRUE)
    \/ Merge(TRUE)

SpecSingle == InitSingle /\ [][NextSingle]_vars

\* --------------------------------------------------------------- claims
Sheets == 1..Len(worksheets)
Titled(n) == {i \in Sheets : worksheets[i].title = n}
Mutating == {"create", "update", "merge"}

\* The rows and columns a grid, or the grid written over it, can reach.
RowsOf(g) == 0..(Len(g) + MaxParseRows + 2)
ColsOf(g) == 0..(Width(g) + 2 * BLOCK_WIDTH)

\* C1: a CSV with fewer than 8 columns or fewer than 2 rows is skipped with
\* zero mutation of the spreadsheet: when the call has logged the skip, it has
\* created no worksheet, written no cell and merged nothing.
C1_SkipMutatesNothing ==
    log = "skip" =>
        \A i \in 1..Len(ops) : ~(ops[i][1] \in Mutating /\ ops[i][2])

\* C2: after N calls of the writer with valid blocks on a sheet that began
\* empty, the k-th most recent block (k = 0..N-1) stands at columns
\* [START_COL + k*BLOCK_WIDTH, +7): its label in row 0, its header in row 1,
\* its data from row 2 on, every cell equal to what was written for it, and
\* the grid holds nothing else.  (Blocks whose cells are text or numbers; a
\* block holding NaN is never written at all.)
BlockAt(blocks, k) == blocks[Len(blocks) - k]

ExpectedCell(blocks, r, c) ==
    LET k == (c - START_COL) \div BLOCK_WIDTH
        j == (c - START_COL) % BLOCK_WIDTH
    IN  IF c < START_COL \/ k >= Len(blocks) \/ j >= DATA_COLS THEN Blank
        ELSE LET b == BlockAt(blocks, k)
             IN  IF r = 0 THEN (IF j = 0 THEN b.label ELSE Blank)
                 ELSE IF r = 1 THEN b.header[j + 1]
                 ELSE IF r - 2 < Len(b.rows) THEN b.rows[r - 1][j + 1]
                 ELSE Blank

\* A block whose cells are all text or numbers.
C2_Valid(b) ==
    \A i \in 1..Len(b.rows) : \A j \in 1..DATA_COLS : ~isna(b.rows[i][j])

C2_BlocksIntact ==
    \A n \in SheetNames :
        (/\ hist[n].tracked /\ hist[n].blocks # <<>> /\ pc # "merge"
         /\ \A k \in 1..Len(hist[n].blocks) : C2_Valid(hist[n].blocks[k])) =>
            /\ Cardinality(Titled(n)) = 1
            /\ \A i \in Titled(n) :
                \A r \in RowsOf(worksheets[i].grid) :
                    \A c \in 0..(START_COL + (MaxRuns + 1) * BLOCK_WIDTH) :
                        Cell(worksheets[i].grid, r, c) = ExpectedCell(hist[n].blocks, r, c)

\* C3: a successful write puts the new block at columns [START_COL, +7)
\* (label in row 0, header in row 1, data from row 2, blank below), leaves
\* columns [START_COL+7, START_COL+9) blank, moves every prior cell value at a
\* column >= START_COL right by BLOCK_WIDTH and leaves every prior cell value
\* left of START_COL as it was; the merge that follows covers the label row.
C3_Shifted(old, new) ==
    \A r \in RowsOf(old) :
        /\ \A c \in ColsOf(old) :
            IF c < START_COL THEN Cell(new, r, c) = Cell(old, r, c)
            ELSE Cell(new, r, c + BLOCK_WIDTH) = Cell(old, r, c)
        /\ \A j \in DATA_COLS..(BLOCK_WIDTH - 1) : Cell(new, r, START_COL + j) = Blank
        /\ \A j \in 0..(DATA_COLS - 1) :
            Cell(new, r, START_COL + j) =
                IF r = 0 THEN (IF j = 0 THEN date_label ELSE Blank)
                ELSE IF r = 1 THEN header_row[j + 1]
                ELSE IF r - 2 < Len(data_rows) THEN data_rows[r - 1][j + 1]
                ELSE Blank

C3_Step ==
    /\ (pc = "update" /\ pc' = "merge") =>
            C3_Shifted(worksheets[sheet].grid, worksheets'[sheet].grid)
    /\ (pc = "merge" /\ log' = "ok") =>
            \E m \in worksheets'[sheet].merges :
                /\ m.startRowIndex = 0 /\ m.endRowIndex = 1
                /\ m.startColumnIndex = START_COL
                /\ m.endColumnIndex = START_COL + DATA_COLS

C3_WriteFramesBlock == [][C3_Step]_vars

\* C4: a failure inside update_sheet (a malformed CSV, a failing remote call)
\* never leaves it and never ends the execution: main() raises only when its
\* setup failed, and when it returns from the loop every .csv file of the
\* listing was handed to update_sheet, each call having returned.  When the
\* setup fails or the directory is missing, no file is handed over and no
\* step of the execution changes the spreadsheet.
CsvNames(files) == {SheetName(f) : f \in {g \in files : IsCsv(g)}}
Called == {called[i] : i \in 1..Len(called)}

C4_Ended ==
    /\ exit = "raised" => ~authed
    /\ (pc = "idle" /\ run > 0 /\ authed /\ isdir) =>
            /\ exit = "returned"
            /\ Called = CsvNames(listing)
            /\ Len(results) = Len(called)
    /\ (pc = "idle" /\ run > 0 /\ ~(authed /\ isdir)) => called = <<>>
    /\ Called \cup CsvNames(todo) = CsvNames(listing)

C4_Step == pc \in {"idle", "isdir"} => worksheets' = worksheets

C4_FailuresStayLocal == []C4_Ended /\ [][C4_Step]_vars

C4_Witness ==
    /\ pc = "idle" /\ exit = "returned"
    /\ Len(called) = 2
    /\ results[1] = "error" /\ results[2] = "ok"

\* C5: the parsed data rows are the source rows from row index 1 up to, not
\* including, the first row whose column 0 is blank, in order; no row at or
\* after that row is included.
FirstBlank(frame) ==
    LET blank == {i \in 2..NRows(frame) : isna(frame[i][1])}
    IN  IF blank = {} THEN NRows(frame) + 1
        ELSE CHOOSE i \in blank : \A k \in blank : i <= k

C5_Truncation ==
    pc = "get" =>
        /\ Len(data_rows) = FirstBlank(raw) - 2
        /\ \A i \in 1..Len(data_rows) : data_rows[i] = ParseRow(raw, i + 1)

\* A blank first cell at index 3 of the data region, a filled row after it.
C5_Witness ==
    /\ pc = "get"
    /\ NRows(raw) = 6 /\ isna(raw[5][1]) /\ ~isna(raw[6][1])
    /\ Len(data_rows) = 3

\* C6: a CSV with one data row ends as label, header and converted data row
\* in rows 0, 1 and 2 of the block, the label merged: integer-valued numeric
\* text becomes an integer, fractional numeric text a float, other text the
\* trimmed string, and a blank data cell the empty string.
C6_Expected(v) ==
    IF isna(v) THEN Blank
    ELSE LET f == ParseFloat(v.s)
         IN  IF ~f.ok THEN Str(Strip(v.s))
             ELSE IF f.num % f.den = 0 THEN IntV(f.num \div f.den)
             ELSE MkFloat(f.num, f.den)

C6_Step ==
    /\ (pc = "read" /\ pc' = "get" /\ Len(data_rows') = 1) =>
            data_rows'[1] = [j \in 1..DATA_COLS |-> C6_Expected(raw'[2][j + 1])]
    /\ (pc = "update" /\ Len(data_rows) = 1) =>
            /\ pc' = "merge"
            /\ Cell(worksheets'[sheet].grid, 0, START_COL) = date_label
            /\ \A j \in 1..DATA_COLS :
                /\ Cell(worksheets'[sheet].grid, 1, START_COL + j - 1) = header_row[j]
                /\ Cell(worksheets'[sheet].grid, 2, START_COL + j - 1) = data_rows[1][j]
    /\ (pc = "merge" /\ Len(data_rows) = 1) =>
            worksheets'[sheet].merges # {}

C6_EndToEnd == [][C6_Step]_vars

\* C7: the spreadsheet never holds two worksheets of one name, and a call
\* for a name that has a worksheet issues no add_worksheet; a missing
\* worksheet is created.
C7_Step ==
    /\ (pc' = "create" \/ Len(worksheets') > Len(worksheets)) =>
            Titled(sheet_name) = {}
    /\ (pc = "resolve" /\ pc' = "read") => Titled(sheet_name) # {}
    /\ (pc = "create" /\ pc' = "read") =>
            /\ Len(worksheets') = Len(worksheets) + 1
            /\ worksheets'[sheet'].title = sheet_name

C7_OneSheetPerName ==
    /\ [](\A n \in SheetNames : Cardinality(Titled(n)) <= 1)
    /\ [][C7_Step]_vars

\* Both names have a worksheet, one of them created in this call.
C7_Witness ==
    /\ pc = "read" /\ Len(worksheets) = 2
    /\ ops = << <<"lookup", TRUE>>, <<"create", TRUE>> >>

\* C8: the remote steps of one call come in the order resolve (lookup, then
\* create when missing), read, write, merge, each at most once and each only
\* after the one before succeeded; a failed step is the last of its call; no
\* sheet is handed over twice in an execution, and a call begins only when
\* the one before has returned.  A failed merge leaves the write in place.
OpRank(op) ==
    CASE op = "lookup" -> 1 [] op = "create" -> 2 [] op = "get" -> 3
      [] op = "update" -> 4 [] op = "merge" -> 5

C8_OpsOrdered ==
    /\ \A i \in 1..Len(ops) :
        /\ i < Len(ops) => ops[i][2] /\ OpRank(ops[i][1]) < OpRank(ops[i + 1][1])
        /\ i = 1 => ops[i][1] = "lookup"
        /\ ops[i][1] = "update" => ops[i - 1][1] = "get"
        /\ ops[i][1] = "merge" => ops[i - 1] = <<"update", TRUE>>
    /\ \A i, j \in 1..Len(called) : called[i] = called[j] => i = j

C8_Step ==
    /\ (called' # called /\ called' # <<>>) =>
            (pc = "loop" /\ Len(results) = Len(called))
    /\ (pc = "merge" /\ log' = "error") =>
            /\ worksheets' = worksheets
            /\ pc' = "loop"
            /\ Cell(worksheets[sheet].grid, 0, START_COL) = date_label
    /\ (log' = "error" /\ log # "error") => pc' = "loop"

C9_InBounds ==
    /\ err # "IndexError"
    /\ ~padded0
    /\ pc = "update" =>
        /\ Len(existing_data) >= Len(data_rows) + 2
        /\ \A i \in 1..Len(existing_data) :
            Len(existing_data[i]) >= START_COL + BLOCK_WIDTH

\* No data rows and a sheet with no rows at all.
C9_Witness ==
    /\ pc = "update" /\ data_rows = <<>>
    /\ worksheets[sheet].grid = <<>>
    /\ Len(existing_data) = 2

\* C10: every merge is issued over row 0, columns [START_COL, START_COL+7),
\* and the rewrite moves values only: a worksheet's merged ranges are never
\* more than that one range, they are exactly that range once a call has
\* succeeded, and the label of an earlier block, at column
\* START_COL + k*BLOCK_WIDTH for k >= 1, is covered by no merged range.
LabelRange ==
    [startRowIndex |-> 0, endRowIndex |-> 1,
     startColumnIndex |-> START_COL, endColumnIndex |-> START_COL + DATA_COLS]

C10_Merges ==
    \A i \in Sheets :
        /\ worksheets[i].merges \subseteq {LabelRange}
        /\ \A m \in worksheets[i].merges : \A k \in 1..(MaxRuns + 1) :
            ~InRange(m, 0, START_COL + k * BLOCK_WIDTH)

C10_Step ==
    /\ (log' = "ok" /\ log # "ok") => worksheets'[sheet].merges = {LabelRange}
    /\ \A i \in Sheets : worksheets[i].merges \subseteq worksheets'[i].merges

C10_OneMergedRange == []C10_Merges /\ [][C10_Step]_vars

\* Two blocks: the earlier label at START_COL + BLOCK_WIDTH, one merged range.
C10_Witness ==
    /\ log = "ok"
    /\ \E i \in Sheets :
        /\ Cell(worksheets[i].grid, 0, START_COL + BLOCK_WIDTH) # Blank
        /\ Cell(worksheets[i].grid, 0, START_COL) # Blank
        /\ worksheets[i].merges = {LabelRange}

====
